---- MODULE Spec2Model ----
(***************************************************************************)
(* Model of the FPL Team Analyzer: data_loader.py (the three fetchers)     *)
(* and 00_fpl.py (main() and the chart helpers).                           *)
(*                                                                         *)
(* A DataFrame is a record [columns, rows]: columns is the ordered list of *)
(* column names, rows a sequence of functions from column name to cell.    *)
(* An HTTP exchange is a record [status, body] chosen by the environment.  *)
(***************************************************************************)
EXTENDS Integers, Sequences, FiniteSets, TLC

\* ---------------------------------------------------------------- bounds
MaxRows == 2          \* rows in one JSON array of a response

\* ------------------------------------------------------ null cell values
\* pd.NaT: the null of a datetime64 column
NaT == 0
\* NaN: the null of a numeric column (missing gameweek)
NaN == 0
\* NaN in a column of names (Series.map() on an id the dict does not hold)
NaNName == "NaN"
\* JSON null / Python None inside a raw response
None == "None"

\* -------------------------------------------------------------- helpers
Range(s) == {s[i] : i \in 1..Len(s)}

InSeq(x, s) == \E i \in 1..Len(s) : s[i] = x

\* sequences over S of length 0..n
SeqsUpTo(S, n) == UNION {[1..k -> S] : k \in 0..n}

\* ------------------------------------------------------------ DataFrames
\* pd.DataFrame()
EmptyFrame == [columns |-> <<>>, rows |-> <<>>]

\* DataFrame.empty: any axis of length 0
IsEmpty(df) == Len(df.columns) = 0 \/ Len(df.rows) = 0

HasColumn(df, c) == InSeq(c, df.columns)

\* df[c] = vals (one value per row); a new column goes last, an old one is
\* replaced
SetColumn(df, c, vals) ==
    [columns |-> IF HasColumn(df, c) THEN df.columns ELSE Append(df.columns, c),
     rows    |-> [i \in 1..Len(df.rows) |->
                    [k \in DOMAIN df.rows[i] \cup {c} |->
                        IF k = c THEN vals[i] ELSE df.rows[i][k]]]]

\* df.drop(cols, axis=1)
DropColumns(df, cols) ==
    [columns |-> SelectSeq(df.columns, LAMBDA c : c \notin cols),
     rows    |-> [i \in 1..Len(df.rows) |->
                    [k \in DOMAIN df.rows[i] \ cols |-> df.rows[i][k]]]]

\* df[cols] raises KeyError when a listed column is not in the frame
KeyError(df, cols) == \E j \in 1..Len(cols) : ~HasColumn(df, cols[j])

\* df[cols]: the listed columns in the listed order (no KeyError)
SelectColumns(df, cols) ==
    [columns |-> cols,
     rows    |-> [i \in 1..Len(df.rows) |->
                    [k \in Range(cols) \cap DOMAIN df.rows[i] |-> df.rows[i][k]]]]

\* the new label of column c under a rename mapping m
Label(m, c) == IF c \in DOMAIN m THEN m[c] ELSE c

\* df.rename(columns=m)
RenameColumns(df, m) ==
    [columns |-> [j \in 1..Len(df.columns) |-> Label(m, df.columns[j])],
     rows    |-> [i \in 1..Len(df.rows) |->
                    [k \in {Label(m, c) : c \in DOMAIN df.rows[i]} |->
                        df.rows[i][CHOOSE c \in DOMAIN df.rows[i] : Label(m, c) = k]]]]

\* pd.json_normalize(list of flat dicts): one column per key that occurs
\* (in the order of `order`), one row per dict
json_normalize(body, order) ==
    LET keys == UNION {DOMAIN body[i] : i \in 1..Len(body)}
    IN [columns |-> SelectSeq(order, LAMBDA c : c \in keys),
        rows    |-> [i \in 1..Len(body) |->
                       [k \in keys |-> IF k \in DOMAIN body[i] THEN body[i][k] ELSE None]]]

\* a sort that leaves the rows as they came
sort_values_skipped(df, col, ascending) == df

\* ---- sort_values(by=col): nulls last in either direction, stable among
\* equal keys (numpy sorts arrays this short by insertion)
RECURSIVE InsertSorted(_, _, _, _)
InsertSorted(sorted, r, col, ascending) ==
    IF sorted = <<>> THEN <<r>>
    ELSE LET last == sorted[Len(sorted)]
             inOrder == IF ascending THEN last[col] <= r[col] ELSE last[col] >= r[col]
         IN IF inOrder THEN Append(sorted, r)
            ELSE Append(InsertSorted(SubSeq(sorted, 1, Len(sorted) - 1), r, col, ascending), last)

RECURSIVE SortRows(_, _, _)
SortRows(rows, col, ascending) ==
    IF rows = <<>> THEN <<>>
    ELSE InsertSorted(SortRows(SubSeq(rows, 1, Len(rows) - 1), col, ascending),
                      rows[Len(rows)], col, ascending)

IsNull(v) == v = NaT \/ v = NaN

sort_values(df, col, ascending) ==
    [columns |-> df.columns,
     rows    |-> SortRows(SelectSeq(df.rows, LAMBDA r : ~IsNull(r[col])), col, ascending)
                 \o SelectSeq(df.rows, LAMBDA r : IsNull(r[col]))]

\* ------------------------------------------------------- value domains
PlayerIds == {1, 2}
WebNames == {"Salah", "Haaland"}
Gameweeks == {1, 2}
\* well-formed timestamp strings of the upstream, oldest first
IsoTimes == <<"2024-08-16T10:00:00Z", "2024-08-23T10:00:00Z">>
\* a string no date-time parser accepts
BadTime == "not-a-date"

\* ------------------------------------------------------ data_loader.py
Ok(v) == [raised |-> FALSE, error |-> "", value |-> v]
Raise(msg) == [raised |-> TRUE, error |-> msg, value |-> EmptyFrame]

\* the instant a well-formed timestamp string denotes
ParseIso(s) == CHOOSE i \in 1..Len(IsoTimes) : IsoTimes[i] = s

Parseable(s) == s = None \/ InSeq(s, IsoTimes)

\* pd.to_datetime(series) with the default errors='raise', one cell
to_datetime(s) == IF s = None THEN NaT ELSE ParseIso(s)

\* pd.to_datetime(series, errors='coerce') on a datetime64 column: the cells
\* are instants or NaT already and come back unchanged
to_datetime_coerce(v) == IF v \in 1..Len(IsoTimes) THEN v ELSE NaT

\* {player['id']: player['web_name'] for player in players}: the last
\* element with an id wins
PlayerDict(elements) ==
    [id \in {elements[i].id : i \in 1..Len(elements)} |->
        elements[CHOOSE i \in 1..Len(elements) :
                    /\ elements[i].id = id
                    /\ \A j \in (i + 1)..Len(elements) : elements[j].id # id].web_name]

fetch_players(resp) ==
    IF resp.status = "http_error"
        THEN [raised |-> TRUE, error |-> "HTTP error occurred while fetching players", value |-> <<>>]
    ELSE IF resp.status # "ok" \/ "elements" \notin DOMAIN resp.body
        THEN [raised |-> TRUE, error |-> "Other error occurred while fetching players", value |-> <<>>]
    ELSE [raised |-> FALSE, error |-> "", value |-> PlayerDict(resp.body.elements)]

\* the else branch of fetch_transfers: df_transfers['time'] = pd.NaT
FillMissingTimeFails(df_transfers) == Raise("Other error occurred while fetching transfers")

FillMissingTime(df_transfers) == Ok(SetColumn(df_transfers, "time", [i \in 1..Len(df_transfers.rows) |-> NaT]))

TransferFields == <<"element_in", "element_out", "entry", "event", "time">>

fetch_transfers(resp) ==
    IF resp.status = "http_error"
        THEN Raise("HTTP error occurred while fetching transfers")
    ELSE IF resp.status # "ok"
        THEN Raise("Other error occurred while fetching transfers")
    ELSE LET df_transfers == json_normalize(resp.body, TransferFields)
         IN IF HasColumn(df_transfers, "time")
               THEN IF \E i \in 1..Len(df_transfers.rows) : ~Parseable(df_transfers.rows[i].time)
                       THEN Raise("Other error occurred while fetching transfers")
                       ELSE Ok(SetColumn(df_transfers, "time",
                                         [i \in 1..Len(df_transfers.rows) |->
                                             to_datetime(df_transfers.rows[i].time)]))
               ELSE FillMissingTime(df_transfers)

HistoryFields == <<"event", "points", "total_points", "rank", "overall_rank", "bank",
                   "event_transfers", "event_transfers_cost", "points_on_bench",
                   "season_name">>

\* all_history.extend(season.get('history', [])) over the past seasons
RECURSIVE PastHistory(_)
PastHistory(past) ==
    IF past = <<>> THEN <<>>
    ELSE (IF "history" \in DOMAIN past[1] THEN past[1].history ELSE <<>>)
         \o PastHistory(Tail(past))

\* history_data.get(key, [])
GetList(body, key) == IF key \in DOMAIN body THEN body[key] ELSE <<>>

\* if not all_history: return pd.DataFrame()
NoHistoryRaises == Raise("Other error occurred while fetching history")

NoHistory == Ok(EmptyFrame)

fetch_history(resp) ==
    IF resp.status = "http_error"
        THEN Raise("HTTP error occurred while fetching history")
    ELSE IF resp.status # "ok"
        THEN Raise("Other error occurred while fetching history")
    ELSE LET all_history == GetList(resp.body, "current") \o PastHistory(GetList(resp.body, "past"))
         IN IF all_history = <<>> THEN NoHistory
            ELSE Ok(json_normalize(all_history, HistoryFields))

\* ------------------------------------------------------------ 00_fpl.py
\* plot_players_in_out charts sort_values(by='Transfers In').head(10) of the
\* summary; within MaxRows a summary holds fewer than ten players, so the
\* chart shows all of it.

\* one thing drawn on the page: where, what kind of element, its text
El(tab, kind, text) == [tab |-> tab, kind |-> kind, text |-> text]

plot_total_points_over_weeks(df_history) ==
    IF HasColumn(df_history, "Gameweek") /\ HasColumn(df_history, "Total Points")
        THEN <<El("history", "chart", "Total Points Over Gameweeks")>>
        ELSE <<El("history", "warning", "'event' or 'points' columns not found for plotting total points over weeks.")>>

plot_rank_over_weeks(df_history) ==
    IF HasColumn(df_history, "Gameweek") /\ HasColumn(df_history, "Rank")
        THEN <<El("history", "chart", "Rank Over Gameweeks")>>
        ELSE <<El("history", "warning", "'Gameweek' or 'Rank' columns not found for plotting rank over weeks.")>>

plot_transfers_per_gameweek(df_transfers) ==
    IF HasColumn(df_transfers, "Gameweek")
        THEN <<El("transfers", "chart", "Number of Transfers per Gameweek")>>
        ELSE <<El("transfers", "warning", "'Gameweek' column not found for plotting transfers per gameweek.")>>

\* Series.value_counts(): occurrences of each value, NaN left out
value_counts(df, col) ==
    [p \in {df.rows[i][col] : i \in 1..Len(df.rows)} \ {NaNName} |->
        Cardinality({i \in 1..Len(df.rows) : df.rows[i][col] = p})]

\* players_summary of plot_players_in_out: the outer merge of the two counts
\* on the player's name, a missing side filled with 0
players_summary(df_transfers) ==
    LET players_in  == value_counts(df_transfers, "Player In")
        players_out == value_counts(df_transfers, "Player Out")
    IN [p \in DOMAIN players_in \cup DOMAIN players_out |->
           [TransfersIn  |-> IF p \in DOMAIN players_in THEN players_in[p] ELSE 0,
            TransfersOut |-> IF p \in DOMAIN players_out THEN players_out[p] ELSE 0]]

NoSummary == <<>>

plot_players_in_out(df_transfers) ==
    IF HasColumn(df_transfers, "Player In") /\ HasColumn(df_transfers, "Player Out")
        THEN [screen  |-> <<El("transfers", "chart", "Top 10 Players Transferred In and Out")>>,
              summary |-> players_summary(df_transfers)]
        ELSE [screen  |-> <<El("transfers", "warning", "'Player In' or 'Player Out' columns not found for plotting players in/out.")>>,
              summary |-> NoSummary]

\* Series.map(player_id_to_name), one cell
MapName(player_id_to_name, id) ==
    IF id \in DOMAIN player_id_to_name THEN player_id_to_name[id] ELSE NaNName

\* what a tab leaves behind: the elements drawn, the table handed to
\* st.dataframe (shown says whether one was), the columns reported missing,
\* the summary behind the in/out chart
TabOut(screen, shown, table, missing, summary) ==
    [screen |-> screen, shown |-> shown, table |-> table,
     missing |-> missing, summary |-> summary, crashed |-> FALSE]

\* the tab's code let an exception escape: the script run dies there
TabCrash(exception) ==
    [screen |-> <<>>, shown |-> FALSE, table |-> EmptyFrame,
     missing |-> {}, summary |-> NoSummary, crashed |-> TRUE]

\* [col for col in desired if col in df.columns]
AvailableColumnsUnchecked(desired, df) == desired

AvailableColumns(desired, df) == SelectSeq(desired, LAMBDA c : HasColumn(df, c))

TransfersDesired == <<"Player In", "Player Out", "entry", "event", "time">>
TransfersRename == [entry |-> "Team ID", event |-> "Gameweek", time |-> "Transfer Time"]

\* the shaping of a non-empty transfers table, main() lines 135-168
ShapeTransfers(player_id_to_name, transfers_data) ==
    LET hasIds == HasColumn(transfers_data, "element_in") /\ HasColumn(transfers_data, "element_out")
        n == Len(transfers_data.rows)
        mapped == IF hasIds
                    THEN SetColumn(
                           SetColumn(transfers_data, "Player In",
                                     [i \in 1..n |-> MapName(player_id_to_name,
                                                             transfers_data.rows[i].element_in)]),
                           "Player Out",
                           [i \in 1..n |-> MapName(player_id_to_name,
                                                   transfers_data.rows[i].element_out)])
                    ELSE transfers_data
        dropped == IF hasIds THEN DropColumns(mapped, {"element_in", "element_out"}) ELSE mapped
        available_columns == AvailableColumns(TransfersDesired, dropped)
        missing_columns == Range(TransfersDesired) \ Range(available_columns)
        renamed == RenameColumns(SelectColumns(dropped, available_columns), TransfersRename)
        coerced == IF HasColumn(renamed, "Transfer Time")
                     THEN SetColumn(renamed, "Transfer Time",
                                    [i \in 1..n |-> to_datetime_coerce(renamed.rows[i]["Transfer Time"])])
                     ELSE renamed
        sorted == IF HasColumn(coerced, "Transfer Time")
                    THEN sort_values(coerced, "Transfer Time", FALSE)
                    ELSE coerced
    IN [warnings |->
            (IF hasIds THEN <<>>
             ELSE <<El("transfers", "warning", "Transfer data does not contain expected player ID columns.")>>)
            \o (IF missing_columns # {}
                  THEN <<El("transfers", "warning", "The following columns are missing and will be excluded")>>
                  ELSE <<>>),
        missing |-> missing_columns,
        crashed |-> KeyError(dropped, available_columns),
        table |-> IF KeyError(dropped, available_columns) THEN EmptyFrame ELSE sorted]

\* except RuntimeError as e: around each tab's fetch
CatchesNothing == FALSE

CatchesRuntimeError == TRUE

\* tab 1 of main() from the return of fetch_transfers on, lines 128-190
TransfersTab(player_id_to_name, fetched) ==
    LET errors == IF fetched.raised THEN <<El("transfers", "error", fetched.error)>> ELSE <<>>
    IN IF fetched.raised /\ ~CatchesRuntimeError THEN TabCrash("RuntimeError")
       ELSE IF ~fetched.raised /\ ~IsEmpty(fetched.value)
         THEN LET shaped == ShapeTransfers(player_id_to_name, fetched.value)
                  inout == plot_players_in_out(shaped.table)
              IN IF shaped.crashed THEN TabCrash("KeyError") ELSE
                 TabOut(shaped.warnings
                          \o <<El("transfers", "dataframe", "")>>
                          \o <<El("transfers", "subheader", "Transfers Per Gameweek")>>
                          \o plot_transfers_per_gameweek(shaped.table)
                          \o <<El("transfers", "subheader", "Players Transferred In vs Out")>>
                          \o inout.screen
                          \o <<El("transfers", "download", "Download Transfer History as CSV")>>,
                        TRUE, shaped.table, shaped.missing, inout.summary)
         ELSE TabOut(errors \o <<El("transfers", "info", "No transfer data available for this Team ID.")>>,
                     FALSE, EmptyFrame, {}, NoSummary)

HistoryDesired == <<"Gameweek", "Overall Rank", "Rank", "Points", "Total Points", "Bank",
                    "Transfers", "Transfers Cost", "Bench Points">>
HistoryLabels == [season_name |-> "Season", overall_rank |-> "Overall Rank", rank |-> "Rank",
                  total_points |-> "Total Points", bank |-> "Bank", points |-> "Points",
                  event_transfers |-> "Transfers", event_transfers_cost |-> "Transfers Cost",
                  points_on_bench |-> "Bench Points", event |-> "Gameweek"]

\* the shaping of a non-empty history table, main() lines 202-240
ShapeHistory(history_data) ==
    LET rename_columns == [c \in {k \in DOMAIN HistoryLabels : HasColumn(history_data, k)} |->
                              HistoryLabels[c]]
        renamed == RenameColumns(history_data, rename_columns)
        available_history_columns == AvailableColumns(HistoryDesired, renamed)
        missing_history_columns == Range(HistoryDesired) \ Range(available_history_columns)
        selected == SelectColumns(renamed, available_history_columns)
        sorted == IF HasColumn(selected, "Gameweek")
                    THEN sort_values(selected, "Gameweek", TRUE)
                    ELSE selected
    IN [warnings |-> IF missing_history_columns # {}
                       THEN <<El("history", "warning", "The following history columns are missing and will be excluded")>>
                       ELSE <<>>,
        missing |-> missing_history_columns,
        crashed |-> KeyError(renamed, available_history_columns),
        table |-> IF KeyError(renamed, available_history_columns) THEN EmptyFrame ELSE sorted]

\* tab 2 of main() from the return of fetch_history on, lines 195-262
HistoryTab(fetched) ==
    LET errors == IF fetched.raised THEN <<El("history", "error", fetched.error)>> ELSE <<>>
    IN IF fetched.raised /\ ~CatchesRuntimeError THEN TabCrash("RuntimeError")
       ELSE IF ~fetched.raised /\ ~IsEmpty(fetched.value)
         THEN LET shaped == ShapeHistory(fetched.value)
              IN IF shaped.crashed THEN TabCrash("KeyError") ELSE
                 TabOut(shaped.warnings
                          \o <<El("history", "dataframe", "")>>
                          \o <<El("history", "subheader", "Total Points Over Gameweeks")>>
                          \o plot_total_points_over_weeks(shaped.table)
                          \o <<El("history", "subheader", "Rank Over Gameweeks")>>
                          \o plot_rank_over_weeks(shaped.table)
                          \o <<El("history", "download", "Download Performance History as CSV")>>,
                        TRUE, shaped.table, shaped.missing, NoSummary)
         ELSE TabOut(errors \o <<El("history", "info", "No performance history data available for this Team ID.")>>,
                     FALSE, EmptyFrame, {}, NoSummary)

\* --------------------------------------------- what the upstream may send
Restrict(r, K) == [k \in K |-> r[k]]

Failures == {[status |-> s, body |-> <<>>] : s \in {"http_error", "other_error"}}

TransferRows(K, ins, outs) ==
    {Restrict(r, K) : r \in [element_in : ins, element_out : outs,
                             entry : {71}, event : {1},
                             time : Range(IsoTimes) \cup {None, BadTime}]}

\* the responses to the transfers request whose rows carry the fields K
\* and the player ids ins, outs
TransfersResponses(K, ins, outs) ==
    Failures \cup {[status |-> "ok", body |-> b] :
                      b \in SeqsUpTo(TransferRows(K, ins, outs), MaxRows)}

HistoryRows(K) ==
    {Restrict(r, K) : r \in [event : Gameweeks \cup {NaN}, points : {50}, total_points : {50},
                             rank : {9}, overall_rank : {9}, bank : {5},
                             event_transfers : {1}, event_transfers_cost : {4},
                             points_on_bench : {3}, season_name : {"2023/24"}]}

\* the `past` array: no season, a season without nested history, with an
\* empty one, or (when room is left) with one row of it
PastSeasons(K, room) ==
    {<<>>, <<[season_name |-> "2023/24"]>>, <<[season_name |-> "2023/24", history |-> <<>>]>>}
    \cup (IF room > 0
            THEN {<<[season_name |-> "2023/24", history |-> <<r>>]>> : r \in HistoryRows(K)}
            ELSE {})

\* the responses to the history request whose rows carry the fields K;
\* nested rows in `past` only if withPast
HistoryResponses(K, withPast) ==
    Failures \cup
    UNION {{[status |-> "ok", body |-> [current |-> c, past |-> p]] :
               p \in PastSeasons(K, IF withPast THEN MaxRows - Len(c) ELSE 0)} :
              c \in SeqsUpTo(HistoryRows(K), MaxRows)}

\* every id -> name mapping over the ids that occur
Directories == UNION {[S -> WebNames] : S \in SUBSET PlayerIds}

\* ------------------------------------------------------------------ state
VARIABLES
    pc,                 \* where the script run stands
    TID,                \* content of the Team ID box
    calls,              \* network events of the current run, in order
    screen,             \* elements drawn by the current run, in order
    player_id_to_name,  \* main()'s local of that name
    transfers_view,     \* what tab 1 drew
    history_view,       \* what tab 2 drew
    received            \* the responses the current run has received

vars == <<pc, TID, calls, screen, player_id_to_name, transfers_view, history_view, received>>

NoResponse == [status |-> "none", body |-> <<>>]
NothingReceived == [players |-> NoResponse, transfers |-> NoResponse, history |-> NoResponse]
NoView == TabOut(<<>>, FALSE, EmptyFrame, {}, NoSummary)
NoDirectory == <<>>

\* ------------------------------------------- the two tab bodies on their own
TabsInit ==
    /\ TID = <<"7">>
    /\ calls = <<>>
    /\ screen = <<>>
    /\ transfers_view = NoView
    /\ history_view = NoView
    /\ \/ /\ pc = "transfers_returned"
          /\ player_id_to_name \in Directories
          /\ \E K \in SUBSET Range(TransferFields) :
                \E r \in TransfersResponses(K, PlayerIds, PlayerIds) :
                   received = [NothingReceived EXCEPT !.transfers = r]
       \/ /\ pc = "history_returned"
          /\ player_id_to_name = NoDirectory
          /\ \E K \in SUBSET Range(HistoryFields) :
                \E r \in HistoryResponses(K, TRUE) :
                   received = [NothingReceived EXCEPT !.history = r]

RenderTransfersTab ==
    /\ pc = "transfers_returned"
    /\ transfers_view' = TransfersTab(player_id_to_name, fetch_transfers(received.transfers))
    /\ pc' = "rendered"
    /\ UNCHANGED <<TID, calls, screen, player_id_to_name, history_view, received>>

RenderHistoryTab ==
    /\ pc = "history_returned"
    /\ history_view' = HistoryTab(fetch_history(received.history))
    /\ pc' = "rendered"
    /\ UNCHANGED <<TID, calls, screen, player_id_to_name, transfers_view, received>>

TabsNext == RenderTransfersTab \/ RenderHistoryTab

SpecTabs == TabsInit /\ [][TabsNext]_vars

\* ------------------------------------------------------- the session flow
\* str.isdigit(): non-empty and every character a digit
Digits == {"0", "1", "2", "3", "4", "5", "6", "7", "8", "9"}

isdigit_nonempty(s) == Len(s) > 0

isdigit(s) == Len(s) > 0 /\ \A i \in 1..Len(s) : s[i] \in Digits

\* what the user may type into the box
TeamIds == {<<>>, <<"7", "1">>, <<"a", "b">>, <<"7", "a">>, <<"-", "1">>, <<" ">>}

\* the bootstrap-static payloads: no player, two players, two players who
\* share a web_name, and a payload without `elements`
Squads == {<<>>,
           <<[id |-> 1, web_name |-> "Salah"], [id |-> 2, web_name |-> "Haaland"]>>,
           <<[id |-> 1, web_name |-> "Salah"], [id |-> 2, web_name |-> "Salah"]>>}
PlayersResponses ==
    Failures \cup {[status |-> "ok", body |-> [detail |-> "Not found."]]}
             \cup {[status |-> "ok", body |-> [elements |-> e]] : e \in Squads}

FlowTransferKeys == {Range(TransferFields), Range(TransferFields) \ {"time"}}
FlowHistoryKeys == {Range(HistoryFields), {"event", "points"}}

Banner == <<El("page", "title", "Fantasy Premier League Team Analyzer"),
            El("page", "write", "Enter your Team ID to view your transfer history and performance across gameweeks.")>>
\* st.divider(); donate_message()
Footer == <<El("page", "divider", ""), El("page", "donate", "")>>

Call(fn) == [fn |-> fn, ev |-> "call"]
Returned(fn, fetched) == [fn |-> fn, ev |-> IF fetched.raised THEN "raise" ELSE "return"]

\* st.stop() in the handler of a failed fetch_players
PlayersFailureContinues == FALSE

PlayersFailureStops == TRUE

\* main()'s locals at the start of a script run: nothing is carried over
CachedDirectory == player_id_to_name

FreshDirectory == NoDirectory

Init ==
    /\ pc = "awaiting_input"
    /\ TID = <<>>
    /\ calls = <<>>
    /\ screen = Banner \o Footer
    /\ player_id_to_name = NoDirectory
    /\ transfers_view = NoView
    /\ history_view = NoView
    /\ received = NothingReceived

\* the user submits the box: the script reruns from the top, up to the
\* first network call or to its end (lines 97-117, 263-267)
Submit(tid) ==
    /\ pc \in {"awaiting_input", "displaying", "error", "crashed"}
    /\ TID' = tid
    /\ player_id_to_name' = FreshDirectory
    /\ transfers_view' = NoView
    /\ history_view' = NoView
    /\ received' = NothingReceived
    /\ IF tid # <<>> /\ isdigit(tid)
         THEN /\ calls' = <<Call("fetch_players")>>
              /\ screen' = Banner
              /\ pc' = "fetch_players"
         ELSE /\ calls' = <<>>
              /\ screen' = Banner
                    \o (IF tid # <<>>
                          THEN <<El("page", "info", "Please enter your Team ID to proceed.")>>
                          ELSE <<>>)
                    \o Footer
              /\ pc' = "awaiting_input"

\* fetch_players() returns or raises; on success the tabs are made and
\* tab 1 runs up to its fetch (lines 117-129)
PlayersReturn ==
    /\ pc = "fetch_players"
    /\ \E resp \in PlayersResponses :
          LET fetched == fetch_players(resp)
          IN /\ received' = [received EXCEPT !.players = resp]
             /\ IF fetched.raised /\ PlayersFailureStops
                  THEN /\ screen' = Append(screen, El("page", "error", fetched.error))
                       /\ calls' = Append(calls, Returned("fetch_players", fetched))
                       /\ pc' = "error"
                       /\ UNCHANGED player_id_to_name
                  ELSE /\ screen' = screen
                            \o (IF fetched.raised THEN <<El("page", "error", fetched.error)>> ELSE <<>>)
                            \o <<El("page", "tabs", "Transfer History | Performance History"),
                                 El("transfers", "header", "Your Transfer History")>>
                       /\ calls' = calls \o <<Returned("fetch_players", fetched), Call("fetch_transfers")>>
                       /\ player_id_to_name' = fetched.value
                       /\ pc' = "fetch_transfers"
    /\ UNCHANGED <<TID, transfers_view, history_view>>

\* fetch_transfers() returns or raises; tab 1 is drawn and tab 2 runs up to
\* its fetch (lines 129-196)
TransfersReturn ==
    /\ pc = "fetch_transfers"
    /\ \E K \in FlowTransferKeys :
         \E resp \in TransfersResponses(K, {1}, {2}) :
            LET fetched == fetch_transfers(resp)
                view == TransfersTab(player_id_to_name, fetched)
            IN /\ received' = [received EXCEPT !.transfers = resp]
               /\ transfers_view' = view
               /\ IF view.crashed
                    THEN /\ screen' = Append(screen, El("transfers", "exception", ""))
                         /\ calls' = Append(calls, Returned("fetch_transfers", fetched))
                         /\ pc' = "crashed"
                    ELSE /\ screen' = screen \o view.screen
                                \o <<El("history", "header", "Your Performance History")>>
                         /\ calls' = calls \o <<Returned("fetch_transfers", fetched), Call("fetch_history")>>
                         /\ pc' = "fetch_history"
    /\ UNCHANGED <<TID, player_id_to_name, history_view>>

\* fetch_history() returns or raises; tab 2 and the footer are drawn and the
\* script run ends (lines 196-267)
HistoryReturn ==
    /\ pc = "fetch_history"
    /\ \E K \in FlowHistoryKeys :
         \E resp \in HistoryResponses(K, FALSE) :
            LET fetched == fetch_history(resp)
                view == HistoryTab(fetched)
            IN /\ received' = [received EXCEPT !.history = resp]
               /\ history_view' = view
               /\ calls' = Append(calls, Returned("fetch_history", fetched))
               /\ IF view.crashed
                    THEN /\ screen' = Append(screen, El("history", "exception", ""))
                         /\ pc' = "crashed"
                    ELSE /\ screen' = screen \o view.screen \o Footer
                         /\ pc' = "displaying"
    /\ UNCHANGED <<TID, player_id_to_name, transfers_view>>

Next ==
    \/ \E tid \in TeamIds : Submit(tid)
    \/ PlayersReturn
    \/ TransfersReturn
    \/ HistoryReturn

Spec == Init /\ [][Next]_vars

\* ----------------------------------------------------------------------
\* Properties of the tab bodies (SpecTabs)
\* ----------------------------------------------------------------------
TransfersRendered == pc = "rendered" /\ received.transfers # NoResponse
HistoryRendered == pc = "rendered" /\ received.history # NoResponse

Kinds(view) == {view.screen[i].kind : i \in 1..Len(view.screen)}

\* the rows fetch_history flattens out of the response in hand
RawHistory == IF received.history.status = "ok"
                THEN GetList(received.history.body, "current")
                       \o PastHistory(GetList(received.history.body, "past"))
                ELSE <<>>
RawHistoryKeys == UNION {DOMAIN RawHistory[i] : i \in 1..Len(RawHistory)}

HistoryShapedAsPresent ==
    /\ ~history_view.crashed
    /\ history_view.shown
    /\ "error" \notin Kinds(history_view)
    /\ Range(history_view.table.columns)
         = {HistoryLabels[k] : k \in RawHistoryKeys} \cap Range(HistoryDesired)
    /\ \A i \in 1..Len(history_view.table.rows) :
          DOMAIN history_view.table.rows[i] = Range(history_view.table.columns)
    /\ Len(history_view.table.rows) = Len(RawHistory)
    /\ history_view.missing = Range(HistoryDesired) \ {HistoryLabels[k] : k \in RawHistoryKeys}
    /\ ("warning" \in Kinds(history_view)) = (history_view.missing # {})
    /\ RawHistoryKeys = {"event", "points"}
         => /\ history_view.table.columns = <<"Gameweek", "Points">>
            /\ history_view.missing = {"Overall Rank", "Rank", "Total Points", "Bank",
                                       "Transfers", "Transfers Cost", "Bench Points"}

\* C5 as stated: for every subset of the known raw history fields present in a
\* non-empty history response, shaping does not raise, the displayed columns are
\* the display labels of the desired fields present, and the missing set
\* reported is the remaining desired labels.
C5_AsStated == (HistoryRendered /\ RawHistory # <<>>) => HistoryShapedAsPresent

\* C5 amended: the same for every NON-EMPTY subset of the known raw fields
\* (rows that carry no field at all make a frame that counts as empty and get
\* the no-data message instead of a table and a missing-columns report).
C5_PresentSubsetShown ==
    (HistoryRendered /\ RawHistory # <<>> /\ RawHistoryKeys # {}) => HistoryShapedAsPresent

C5_Witness ==
    /\ HistoryRendered
    /\ RawHistoryKeys = {"event", "points"}
    /\ history_view.shown
    /\ Len(history_view.table.rows) = 2
    /\ Cardinality(history_view.missing) = 7

TimelessTransfers ==
    /\ received.transfers.status = "ok"
    /\ received.transfers.body # <<>>
    /\ \A i \in 1..Len(received.transfers.body) : "time" \notin DOMAIN received.transfers.body[i]

\* C6: a non-empty transfers response without a `time` field in any row:
\* fetch_transfers returns normally with a time column of NaT, shaping does
\* not raise, and every displayed row has a null Transfer Time.
C6_MissingTimeIsNull ==
    (TransfersRendered /\ TimelessTransfers) =>
        LET fetched == fetch_transfers(received.transfers)
        IN /\ ~fetched.raised
           /\ HasColumn(fetched.value, "time")
           /\ Len(fetched.value.rows) = Len(received.transfers.body)
           /\ \A i \in 1..Len(fetched.value.rows) : fetched.value.rows[i].time = NaT
           /\ ~transfers_view.crashed
           /\ transfers_view.shown
           /\ "error" \notin Kinds(transfers_view)
           /\ HasColumn(transfers_view.table, "Transfer Time")
           /\ Len(transfers_view.table.rows) = Len(received.transfers.body)
           /\ \A i \in 1..Len(transfers_view.table.rows) :
                 transfers_view.table.rows[i]["Transfer Time"] = NaT

C6_Witness ==
    /\ TransfersRendered
    /\ TimelessTransfers
    /\ Len(received.transfers.body) = 2
    /\ "element_in" \in DOMAIN received.transfers.body[1]
    /\ transfers_view.shown
    /\ transfers_view.table.rows[2]["Transfer Time"] = NaT

NoHistoryAtAll ==
    /\ received.history.status = "ok"
    /\ GetList(received.history.body, "current") = <<>>
    /\ \A j \in 1..Len(GetList(received.history.body, "past")) :
          \/ "history" \notin DOMAIN received.history.body.past[j]
          \/ received.history.body.past[j].history = <<>>

\* C7: with an empty `current` and a `past` that is empty or holds only
\* seasons with empty nested history, fetch_history returns an empty table
\* without raising and the tab shows only the no-history message.
C7_EmptyHistoryIsInfo ==
    (HistoryRendered /\ NoHistoryAtAll) =>
        /\ fetch_history(received.history) = Ok(EmptyFrame)
        /\ ~history_view.crashed
        /\ ~history_view.shown
        /\ history_view.screen
             = <<El("history", "info", "No performance history data available for this Team ID.")>>

C7_Witness ==
    /\ HistoryRendered
    /\ NoHistoryAtAll
    /\ Len(received.history.body.past) = 1
    /\ Kinds(history_view) = {"info"}

\* C8 as stated: every player who appears only in element_out has, in the
\* in/out summary, a transfers-in count of 0 and a transfers-out count equal
\* to the number of rows in which that player goes out.  (Stated for the
\* players the directory resolves to a name.)
C8_OutOnlyPlayerCounts ==
    (/\ TransfersRendered
     /\ HasColumn(transfers_view.table, "Player In")
     /\ HasColumn(transfers_view.table, "Player Out")) =>
        LET body == received.transfers.body
        IN \A id \in DOMAIN player_id_to_name :
              (/\ \E i \in 1..Len(body) : body[i].element_out = id
               /\ \A i \in 1..Len(body) : body[i].element_in # id)
              => LET name == player_id_to_name[id]
                 IN /\ name \in DOMAIN transfers_view.summary
                    /\ transfers_view.summary[name].TransfersIn = 0
                    /\ transfers_view.summary[name].TransfersOut
                         = Cardinality({i \in 1..Len(body) : body[i].element_out = id})

UnparseableTime ==
    /\ received.transfers.status = "ok"
    /\ \E i \in 1..Len(received.transfers.body) :
          /\ "time" \in DOMAIN received.transfers.body[i]
          /\ received.transfers.body[i].time = BadTime

\* C10 as stated: a transfers response with an unparseable timestamp does
\* not raise or produce an error; the value becomes a null Transfer Time and
\* the table is displayed with all its rows.
C10_UnparseableTimeCoerced ==
    (TransfersRendered /\ UnparseableTime) =>
        /\ "error" \notin Kinds(transfers_view)
        /\ transfers_view.shown
        /\ Len(transfers_view.table.rows) = Len(received.transfers.body)
        /\ \E i \in 1..Len(transfers_view.table.rows) :
              transfers_view.table.rows[i]["Transfer Time"] = NaT

\* ----------------------------------------------------------------------
\* Properties of the session flow (Spec)
\* ----------------------------------------------------------------------
CountKind(kind) == Cardinality({i \in 1..Len(screen) : screen[i].kind = kind})
TabScreen(tab) == SelectSeq(screen, LAMBDA el : el.tab = tab)
TabKinds(tab) == {screen[i].kind : i \in {j \in 1..Len(screen) : screen[j].tab = tab}}
CallsOf(fn) == {i \in 1..Len(calls) : calls[i].fn = fn}

Numeric(tid) == tid # <<>> /\ \A i \in 1..Len(tid) : tid[i] \in Digits

PlayersAnswered == received.players # NoResponse
PlayersFailed ==
    PlayersAnswered /\ (received.players.status # "ok" \/ "elements" \notin DOMAIN received.players.body)

\* C1: when fetch_players fails for a numeric team id, the submission ends
\* with exactly one error message, no tabs, and neither fetch_transfers nor
\* fetch_history called.
C1_DirectoryFailureIsFatal ==
    PlayersFailed =>
        /\ Numeric(TID)
        /\ pc = "error"
        /\ CountKind("error") = 1
        /\ CountKind("tabs") = 0
        /\ TabScreen("transfers") = <<>>
        /\ TabScreen("history") = <<>>
        /\ CallsOf("fetch_transfers") = {}
        /\ CallsOf("fetch_history") = {}
        /\ received.transfers = NoResponse
        /\ received.history = NoResponse
        /\ transfers_view = NoView
        /\ history_view = NoView

C1_Witness ==
    /\ pc = "error"
    /\ received.players.status = "http_error"
    /\ screen[Len(screen)] = El("page", "error", "HTTP error occurred while fetching players")

\* C2: a non-empty team id that is not purely numeric issues no network call,
\* shows the enter-your-Team-ID prompt and leaves the session awaiting input.
C2_NonNumericNeverFetches ==
    (TID # <<>> /\ ~Numeric(TID)) =>
        /\ pc = "awaiting_input"
        /\ calls = <<>>
        /\ received = NothingReceived
        /\ CountKind("error") = 0
        /\ \E i \in 1..Len(screen) :
              screen[i] = El("page", "info", "Please enter your Team ID to proceed.")

C2_Witness ==
    /\ TID = <<"7", "a">>
    /\ pc = "awaiting_input"
    /\ CountKind("info") = 1

\* how a tab's fetch came out: "failed", "empty" or "rows"
Outcome(fetched) == IF fetched.raised THEN "failed"
                    ELSE IF IsEmpty(fetched.value) THEN "empty" ELSE "rows"

TabFetch(tab) == IF tab = "transfers" THEN fetch_transfers(received.transfers)
                 ELSE fetch_history(received.history)

\* the kinds of message a tab shows for an outcome of its own fetch
TabMessagesMatch(tab, outcome) ==
    /\ ("error" \in TabKinds(tab)) = (outcome = "failed")
    /\ ("info" \in TabKinds(tab)) = (outcome \in {"failed", "empty"})
    /\ ("dataframe" \in TabKinds(tab)) = (outcome = "rows")
    /\ "exception" \notin TabKinds(tab)

\* C3: once the directory fetch has succeeded, whatever the transfers fetch
\* gives (failure, empty, rows) the history fetch is still attempted and the
\* history tab is drawn by its own outcome; the error/info of one tab's
\* failed or empty fetch appears in that tab only.
C3_TabsDegradeIndependently ==
    /\ received.transfers # NoResponse =>
          /\ pc \in {"fetch_history", "displaying"}
          /\ CallsOf("fetch_history") # {}
          /\ TabMessagesMatch("transfers", Outcome(fetch_transfers(received.transfers)))
    /\ received.history # NoResponse =>
          /\ pc = "displaying"
          /\ TabMessagesMatch("history", Outcome(fetch_history(received.history)))
          /\ TabMessagesMatch("transfers", Outcome(fetch_transfers(received.transfers)))
    /\ (PlayersAnswered /\ ~PlayersFailed) =>
          CountKind("error") = Cardinality(
              {t \in {"transfers", "history"} :
                  received[t] # NoResponse /\ Outcome(TabFetch(t)) = "failed"})

C3_Witness ==
    /\ pc = "displaying"
    /\ received.transfers.status = "http_error"
    /\ TabKinds("transfers") = {"header", "error", "info"}
    /\ history_view.shown
    /\ "error" \notin TabKinds("history")
    /\ "info" \notin TabKinds("history")

TransfersFetched ==
    /\ PlayersAnswered /\ ~PlayersFailed
    /\ received.transfers.status = "ok" /\ ~fetch_transfers(received.transfers).raised
AllFetched == TransfersFetched /\ received.history.status = "ok"

\* comparison of two cells as pandas compares them: false when either is null
Geq(a, b) == ~IsNull(a) /\ ~IsNull(b) /\ a >= b
Leq(a, b) == ~IsNull(a) /\ ~IsNull(b) /\ a <= b

\* C4 as stated: the displayed transfers table has each row's timestamp >=
\* that of the row after it, the displayed history table each row's gameweek
\* <= that of the row after it.
C4_AsStated ==
    /\ (TransfersFetched /\ transfers_view.shown) =>
              \A i \in 1..(Len(transfers_view.table.rows) - 1) :
                 Geq(transfers_view.table.rows[i]["Transfer Time"],
                     transfers_view.table.rows[i + 1]["Transfer Time"])
    /\ (AllFetched /\ history_view.shown /\ HasColumn(history_view.table, "Gameweek")) =>
              \A i \in 1..(Len(history_view.table.rows) - 1) :
                 Leq(history_view.table.rows[i].Gameweek, history_view.table.rows[i + 1].Gameweek)

\* rows with a value come first and in order, rows with a null value last
OrderedNullsLast(rows, col, ascending) ==
    \A i \in 1..(Len(rows) - 1) :
       \/ IsNull(rows[i + 1][col])
       \/ IF ascending THEN Leq(rows[i][col], rows[i + 1][col])
          ELSE Geq(rows[i][col], rows[i + 1][col])

\* C4 amended: in the displayed transfers table the rows that have a
\* timestamp come first, in descending timestamp order, and the rows with a
\* null timestamp after them; in the displayed history table (when it has a
\* Gameweek column) the rows that have a gameweek come first, in ascending
\* order, and the rows without one after them.
C4_OrderedNullsLast ==
    /\ (TransfersFetched /\ transfers_view.shown) =>
              /\ Len(transfers_view.table.rows) = Len(received.transfers.body)
              /\ OrderedNullsLast(transfers_view.table.rows, "Transfer Time", FALSE)
    /\ (AllFetched /\ history_view.shown /\ HasColumn(history_view.table, "Gameweek")) =>
              /\ Len(history_view.table.rows) = Len(received.history.body.current)
              /\ OrderedNullsLast(history_view.table.rows, "Gameweek", TRUE)

C4_Witness ==
    /\ pc = "displaying"
    /\ AllFetched
    /\ Len(received.transfers.body) = 2
    /\ "time" \in DOMAIN received.transfers.body[1]
    /\ received.transfers.body[1].time = IsoTimes[1]
    /\ received.transfers.body[2].time = IsoTimes[2]
    /\ transfers_view.table.rows[1]["Transfer Time"] = 2
    /\ transfers_view.table.rows[2]["Transfer Time"] = 1
    /\ Len(received.history.body.current) = 2
    /\ received.history.body.current[1].event = 2
    /\ received.history.body.current[2].event = 1
    /\ history_view.table.rows[1].Gameweek = 1
    /\ history_view.table.rows[2].Gameweek = 2

CallOrder == <<"fetch_players", "fetch_transfers", "fetch_history">>

\* C9: a submission makes at most three network calls, one after another in
\* the order fetch_players, fetch_transfers, fetch_history: a call starts
\* only after the one before it has returned or raised, none is made twice,
\* and nothing a run holds was fetched by an earlier run.
C9_SequentialFreshCalls ==
    /\ Len(calls) <= 2 * Len(CallOrder)
    /\ \A i \in 1..Len(calls) :
          /\ calls[i].fn = CallOrder[(i + 1) \div 2]
          /\ calls[i].ev \in (IF i % 2 = 1 THEN {"call"} ELSE {"return", "raise"})
    /\ \A k \in 1..Len(CallOrder) :
          (received[IF k = 1 THEN "players" ELSE IF k = 2 THEN "transfers" ELSE "history"]
              # NoResponse) = (Len(calls) >= 2 * k)
    /\ player_id_to_name # NoDirectory =>
          /\ PlayersAnswered /\ ~PlayersFailed
          /\ player_id_to_name = PlayerDict(received.players.body.elements)
    /\ transfers_view # NoView => received.transfers # NoResponse
    /\ history_view # NoView => received.history # NoResponse

C9_Witness ==
    /\ pc = "displaying"
    /\ Len(calls) = 6
    /\ calls[5] = Call("fetch_history")
    /\ calls[4].ev = "raise"
====
